---- MODULE Spec2Model ----
(***************************************************************************)
(* A model of cpa/model_selection.py: the DatasetSpecs resolution, the     *)
(* report pipeline get_best_plots and the batch driver under __main__.     *)
(*                                                                         *)
(* Python strings that the code searches, splits or formats are sequences  *)
(* of one-character strings, so that `in`, str.split and the f-strings are *)
(* computed character by character.  Collaborator modules (torch, cpa.api, *)
(* cpa.plotting, cpa.train) are outside the file: a call into them either  *)
(* returns or raises, chosen nondeterministically, and a plotting call     *)
(* that returns leaves one image on disk.                                  *)
(***************************************************************************)
EXTENDS Naturals, Sequences, FiniteSets, TLC

(***************************************************************************)
(* Bounds of the model.                                                    *)
(***************************************************************************)
MaxFolders == 2
MaxFiles == 2

(***************************************************************************)
(* String literals of the source, and of the scenarios explored.           *)
(***************************************************************************)
GSM == <<"G","S","M">>
pachter == <<"p","a","c","h","t","e","r">>
cross == <<"c","r","o","s","s">>
sweep == <<"s","w","e","e","p">>
mypath == <<"p","r","e","t","r","a","i","n","e","d","_","m","o","d","e","l","s","/">>
DefaultPlotsPath == <<".","/","r","e","s","u","l","t","s","/","p","l","o","t","s">>

Nutlin == <<"N","u","t","l","i","n">>
BMS == <<"B","M","S">>
Dex == <<"D","e","x">>
SAHA == <<"S","A","H","A">>
Vehicle == <<"V","e","h","i","c","l","e">>
EGF == <<"E","G","F">>
RA == <<"R","A">>
MDM2 == <<"M","D","M","2">>
CrossGenes == << <<"C","a","r","1","3">>, <<"C","h","a","c","1">>, <<"N","c","f","1">>,
                 <<"N","f","k","b","i","z">>, <<"P","h","l","d","a","1">>, <<"R","e","l">> >>
GsmPalette == << <<BMS, "#999999">>, <<SAHA, "#4daf4a">>, <<Dex, "#377eb8">>,
                 <<Nutlin, "#e41a1c">>, <<Vehicle, "#000000">> >>

(***************************************************************************)
(* Python string operations.                                               *)
(***************************************************************************)
\* sub in s
Contains(sub, s) ==
    \E i \in 0..Len(s) :
        /\ i + Len(sub) <= Len(s)
        /\ SubSeq(s, i + 1, i + Len(sub)) = sub

\* s.split(sep) for a one-character sep: the fields between the separators,
\* empty fields kept.
RECURSIVE Split(_, _)
Split(s, sep) ==
    IF \A i \in 1..Len(s) : s[i] # sep
    THEN << s >>
    ELSE LET p == CHOOSE i \in 1..Len(s) :
                      /\ s[i] = sep
                      /\ \A j \in 1..(i - 1) : s[j] # sep
         IN << SubSeq(s, 1, p - 1) >> \o Split(SubSeq(s, p + 1, Len(s)), sep)

\* os.path.join(a, b) on POSIX
Join2(a, b) ==
    IF Len(b) > 0 /\ b[1] = "/" THEN b
    ELSE IF Len(a) = 0 \/ a[Len(a)] = "/" THEN a \o b
    ELSE a \o <<"/">> \o b

\* os.path.join(a, b, c)
Join3(a, b, c) == Join2(Join2(a, b), c)

\* pathlib.Path(s): empty and "." components are dropped, so are repeated and
\* trailing separators; the result is the sequence of remaining components.
RECURSIVE DropDots(_)
DropDots(parts) ==
    IF parts = << >> THEN << >>
    ELSE IF Head(parts) = << >> \/ Head(parts) = <<".">>
         THEN DropDots(Tail(parts))
         ELSE << Head(parts) >> \o DropDots(Tail(parts))

PurePath(s) ==
    [abs |-> (Len(s) > 0 /\ s[1] = "/"), parts |-> DropDots(Split(s, "/"))]

(***************************************************************************)
(* Attribute values: an attribute of an object is unset (reading it raises *)
(* AttributeError), None, or a value.                                      *)
(***************************************************************************)
Unset == [tag |-> "unset", val |-> << >>]
None == [tag |-> "None", val |-> << >>]
Val(v) == [tag |-> "value", val |-> v]

(***************************************************************************)
(* DatasetSpecs.__init__: three independent if-blocks, run in order.       *)
(***************************************************************************)
\* Mutant: __init__ first sets every optional attribute to None.
SpecsDefaultNone(model_name) ==
    [model_name |-> model_name,
     plot_ref |-> TRUE,
     perts_palette |-> None,
     perturbations_pair |-> None,
     target_genes |-> None,
     selected_drugs |-> None,
     selected_cov |-> None]

SpecsDefault(model_name) ==
    [model_name |-> model_name,
     plot_ref |-> TRUE,
     perts_palette |-> Unset,
     perturbations_pair |-> Unset,
     target_genes |-> Unset,
     selected_drugs |-> Unset,
     selected_cov |-> Unset]

\* Mutant: the GSM block lists three drugs.
GsmBlockThreeDrugs(s) ==
    [s EXCEPT !.perts_palette = Val(GsmPalette),
              !.perturbations_pair = Val(<<Nutlin, BMS>>),
              !.target_genes = Val(<<MDM2>>),
              !.selected_drugs = Val(<<Nutlin, BMS, Dex>>),
              !.selected_cov = Val(<<"A","5","4","9">>)]

GsmBlock(s) ==
    [s EXCEPT !.perts_palette = Val(GsmPalette),
              !.perturbations_pair = Val(<<Nutlin, BMS>>),
              !.target_genes = Val(<<MDM2>>),
              !.selected_drugs = Val(<<Nutlin, BMS, Dex, SAHA>>),
              !.selected_cov = Val(<<"A","5","4","9">>)]

\* Mutant: the pachter block sets selected_drugs too.
PachterBlockWithDrugs(s) ==
    [s EXCEPT !.perts_palette = None,
              !.perturbations_pair = Val(<<EGF, RA>>),
              !.selected_drugs = Val(<<EGF, RA>>),
              !.selected_cov = Val(<<"u","n","k","n","o","w","n">>),
              !.plot_ref = FALSE]

PachterBlock(s) ==
    [s EXCEPT !.perts_palette = None,
              !.perturbations_pair = Val(<<EGF, RA>>),
              !.selected_cov = Val(<<"u","n","k","n","o","w","n">>),
              !.plot_ref = FALSE]

CrossBlock(s) ==
    [s EXCEPT !.perts_palette = None,
              !.perturbations_pair = None,
              !.selected_cov = Val(<<"m","o","u","s","e">>),
              !.target_genes = Val(CrossGenes),
              !.plot_ref = FALSE]

\* Mutant: the three blocks form one if/elif/elif chain.
DatasetSpecsElif(model_name) ==
    LET s0 == SpecsDefault(model_name)
    IN IF Contains(GSM, model_name) THEN GsmBlock(s0)
       ELSE IF Contains(pachter, model_name) THEN PachterBlock(s0)
       ELSE IF Contains(cross, model_name) THEN CrossBlock(s0)
       ELSE s0

DatasetSpecs(model_name) ==
    LET s0 == SpecsDefault(model_name)
        s1 == IF Contains(GSM, model_name) THEN GsmBlock(s0) ELSE s0
        s2 == IF Contains(pachter, model_name) THEN PachterBlock(s1) ELSE s1
        s3 == IF Contains(cross, model_name) THEN CrossBlock(s2) ELSE s2
    IN s3

(***************************************************************************)
(* The scenarios explored: the command line, the content of the root       *)
(* directory, and the arguments of a direct call of get_best_plots.        *)
(***************************************************************************)
ScriptName == <<"m","o","d","e","l","_","s","e","l","e","c","t","i","o","n",".","p","y">>
run1 == <<"r","u","n","1">>
sweepA == <<"s","w","e","e","p","A">>
expA == <<"e","x","p","A">>
run1_sweep == <<"r","u","n","1","_","s","w","e","e","p">>
run1_other == <<"r","u","n","1","_","o","t","h","e","r">>
GSM_run1_sweep == <<"G","S","M","_","r","u","n","1","_","s","w","e","e","p">>
RootExpAModelB == <<"r","o","o","t","/","e","x","p","A","/","m","o","d","e","l","B">>

Args == { <<ScriptName>>, <<ScriptName, run1>>, <<ScriptName, GSM>> }
FolderNames == { sweepA, expA }
FileNames == { run1_sweep, run1_other, GSM_run1_sweep }

\* get_best_plots called directly: one name per combination of the three
\* substrings, and one name with no "/".
CallNames ==
    { RootExpAModelB,
      <<"m","o","d","e","l","B">>,
      <<"r","o","o","t","/","G","S","M","_","A","/","m">>,
      <<"r","o","o","t","/","p","a","c","h","t","e","r","/","m">>,
      <<"r","o","o","t","/","c","r","o","s","s","/","m">>,
      <<"r","o","o","t","/","G","S","M","_","p","a","c","h","t","e","r","/","m">>,
      <<"r","o","o","t","/","G","S","M","_","c","r","o","s","s","/","m">>,
      <<"r","o","o","t","/","p","a","c","h","t","e","r","_","c","r","o","s","s","/","m">>,
      <<"r","o","o","t","/","G","S","M","_","p","a","c","h","t","e","r","_","c","r","o","s","s","/","m">> }
CallPaths == { DefaultPlotsPath, <<"o","u","t">> }

\* The sequences over S, without repetition, of at most n elements: the orders
\* in which a directory of at most n entries can be enumerated.
Listings(S, n) ==
    { s \in UNION { [1..k -> S] : k \in 0..n } :
        \A i, j \in 1..Len(s) : i # j => s[i] # s[j] }

FileSystems ==
    { [exists |-> FALSE, folders |-> << >>] } \cup
    UNION { { [exists |-> TRUE,
               folders |-> [k \in 1..Len(fl) |-> [name |-> fl[k], entries |-> e[k]]]] :
                  e \in [1..Len(fl) -> Listings(FileNames, MaxFiles)] } :
            fl \in Listings(FolderNames, MaxFolders) }

(***************************************************************************)
(* State.                                                                  *)
(***************************************************************************)
VARIABLES
    argv,          \* sys.argv
    fs,            \* the root directory: whether it exists, its subdirectories
                   \* and their entries, each in enumeration order
    caller,        \* "main": run as a program; "call": get_best_plots called
                   \* by importing code, twice with the same arguments
    mainpc,        \* position of the caller
    fi, fj,        \* __main__: index of the folder and of the entry in it
    exc,           \* the exception that ended the program ("" when none)
    pc,            \* get_best_plots: the line to run next ("idle": not running)
    model_name,    \* get_best_plots: its arguments
    path,
    specs,         \* get_best_plots: its locals
    folder,
    plots_prefix,
    uncert_list,
    idx,           \* position of the running for-loop
    plots,         \* images rendered by the running invocation, in order
    dirs,          \* the disk: directories and image files
    disk,
    done           \* the invocations that ended, in order

mainVars == <<argv, fs, caller, mainpc, fi, fj, exc>>
frameVars == <<model_name, path, specs, folder, plots_prefix, uncert_list, idx>>
vars == <<argv, fs, caller, mainpc, fi, fj, exc, pc, model_name, path, specs,
          folder, plots_prefix, uncert_list, idx, plots, dirs, disk, done>>

NoSpecs == SpecsDefault(<< >>)

Init ==
    /\ caller \in {"main", "call"}
    /\ argv \in (IF caller = "main" THEN Args ELSE { <<ScriptName>> })
    /\ fs \in (IF caller = "main" THEN FileSystems
               ELSE { [exists |-> FALSE, folders |-> << >>] })
    /\ mainpc = "start"
    /\ fi = 1
    /\ fj = 1
    /\ exc = ""
    /\ pc = "idle"
    /\ model_name = << >>
    /\ path = << >>
    /\ specs = NoSpecs
    /\ folder = << >>
    /\ plots_prefix = << >>
    /\ uncert_list = << >>
    /\ idx = 1
    /\ plots = << >>
    /\ dirs = {}
    /\ disk = {}
    /\ done = << >>

(***************************************************************************)
(* Entering and leaving get_best_plots.                                    *)
(***************************************************************************)
Range(s) == { s[i] : i \in 1..Len(s) }

\* get_best_plots(name, p) is entered.
Enter(name, p) ==
    /\ pc' = "L62"
    /\ model_name' = name
    /\ path' = p
    /\ specs' = NoSpecs
    /\ folder' = << >>
    /\ plots_prefix' = << >>
    /\ uncert_list' = << >>
    /\ idx' = 1
    /\ plots' = << >>

Ended(outcome) ==
    [model_name |-> model_name, path |-> path, folder |-> folder,
     plots_prefix |-> plots_prefix, plots |-> plots, at |-> pc,
     outcome |-> outcome]

\* The invocation ends: its frame is dropped, the disk stays as it is.
Leave(outcome) ==
    /\ pc' = "idle"
    /\ done' = Append(done, Ended(outcome))
    /\ model_name' = << >>
    /\ path' = << >>
    /\ specs' = NoSpecs
    /\ folder' = << >>
    /\ plots_prefix' = << >>
    /\ uncert_list' = << >>
    /\ idx' = 1
    /\ plots' = << >>
    /\ UNCHANGED <<argv, fs, caller, fi, fj, dirs, disk>>

\* Mutant: the driver catches the exception and goes on with the next file.
RaiseCaught(e) ==
    /\ Leave(e)
    /\ mainpc' = mainpc
    /\ exc' = e

\* An exception leaves get_best_plots; nothing catches it, so under __main__
\* it ends the program.
Raise(e) ==
    /\ Leave(e)
    /\ mainpc' = IF caller = "main" THEN "raised" ELSE mainpc
    /\ exc' = e

Return ==
    /\ Leave("returned")
    /\ UNCHANGED <<mainpc, exc>>

\* A statement of get_best_plots that ends normally: control moves to line
\* `next` and the images `imgs` are on disk.
Goto(next, imgs) ==
    /\ pc' = next
    /\ plots' = plots \o imgs
    /\ disk' = disk \cup Range(imgs)
    /\ UNCHANGED <<mainVars, model_name, path, dirs, done>>

\* The same, with the loop position and uncert_list as the statement leaves them.
Stmt(next, imgs, i, l) ==
    /\ Goto(next, imgs)
    /\ idx' = i
    /\ uncert_list' = l
    /\ UNCHANGED <<specs, folder, plots_prefix>>

\* A call into a collaborator module: it returns, or it raises.
CollabLoop(next, imgs, i, l) ==
    \E ok \in BOOLEAN :
        IF ok THEN Stmt(next, imgs, i, l) ELSE Raise("CollaboratorError")

Collab(next, imgs) == CollabLoop(next, imgs, idx, uncert_list)

\* The image a plotting call leaves: the collaborator that renders it, the
\* fileprefix its object was built with, the file name when the source passes
\* one, and the postfix/kind and response name when the collaborator derives
\* the name from them.
Image(fn, fileprefix, file, postfix, var) ==
    [fn |-> fn, fileprefix |-> fileprefix, file |-> file, postfix |-> postfix, var |-> var]

(***************************************************************************)
(* get_best_plots, statement by statement.                                 *)
(***************************************************************************)
\* Path(p).mkdir(parents=True, exist_ok=exist_ok) raises FileExistsError when
\* the directory is there and exist_ok is false; otherwise the directory and
\* its missing parents are there afterwards.
MkdirRaises(p, exist_ok) == PurePath(p) \in dirs /\ ~exist_ok

Mkdir(p) ==
    LET q == PurePath(p)
    IN dirs \cup { [abs |-> q.abs, parts |-> SubSeq(q.parts, 1, k)] : k \in 1..Len(q.parts) }

FolderOf(p, name) ==
    LET parts == Split(name, "/") IN p \o <<"/">> \o parts[Len(parts) - 1] \o <<"/">>

PrefixOf(fold, name) ==
    LET parts == Split(name, "/")
    IN fold \o <<"/">> \o parts[Len(parts) - 1] \o <<"_">> \o parts[Len(parts)]

\* Mutant: mkdir without exist_ok.
ExistNotOk == FALSE

ExistOk == TRUE

\* specs = DatasetSpecs(model_name)
Resolve ==
    /\ pc = "L62"
    /\ Goto("L64", << >>)
    /\ specs' = DatasetSpecs(model_name)
    /\ UNCHANGED <<folder, plots_prefix, uncert_list, idx>>

\* folder = f"{path}/{model_name.split('/')[-2]}/"
DeriveFolder ==
    /\ pc = "L64"
    /\ IF Len(Split(model_name, "/")) < 2
       THEN Raise("IndexError")
       ELSE /\ Goto("L65", << >>)
            /\ folder' = FolderOf(path, model_name)
            /\ UNCHANGED <<specs, plots_prefix, uncert_list, idx>>

\* Path(folder).mkdir(parents=True, exist_ok=True)
MakeFolder ==
    /\ pc = "L65"
    /\ IF MkdirRaises(folder, ExistOk)
       THEN Raise("FileExistsError")
       ELSE /\ pc' = "L66"
            /\ dirs' = Mkdir(folder)
            /\ UNCHANGED <<mainVars, frameVars, plots, disk, done>>

\* plots_prefix = f"{folder}/{...[-2]}_{...[-1]}"
DerivePrefix ==
    /\ pc = "L66"
    /\ Goto("L70", << >>)
    /\ plots_prefix' = PrefixOf(folder, model_name)
    /\ UNCHANGED <<specs, folder, uncert_list, idx>>

\* state, args, history = torch.load(model_name, ...)
LoadCheckpoint ==
    /\ pc = "L70"
    /\ Collab("L73", << >>)

\* pretty_history = CPAHistory(history, fileprefix=plots_prefix); print_time()
MakeHistory ==
    /\ pc = "L73"
    /\ Collab("L75", << >>)

PlotLosses ==
    /\ pc = "L75"
    /\ Collab("L76", << Image("plot_losses", plots_prefix, << >>, "", << >>) >>)

PlotMetrics ==
    /\ pc = "L76"
    /\ Collab("L79", << Image("plot_metrics", plots_prefix, << >>, "", << >>) >>)

\* prepare_cpa(args, state_dict=state); API(datasets, autoencoder)
PrepareModel ==
    /\ pc = "L79"
    /\ Collab("L86", << >>)

\* CompertVisuals(cpa_api, fileprefix=plots_prefix, perts_palette=specs.perts_palette)
MakeVisuals ==
    /\ pc = "L86"
    /\ IF specs.perts_palette.tag = "unset"
       THEN Raise("AttributeError")
       ELSE Collab("L91", << >>)

\* get_drug_embeddings(); get_covars_embeddings()
GetEmbeddings ==
    /\ pc = "L91"
    /\ Collab("L93", << >>)

PlotPertsEmbeddings ==
    /\ pc = "L93"
    /\ Collab("L96", << Image("plot_latent_embeddings", plots_prefix, << >>,
                              "perturbations+text", << >>) >>)

PlotCovarsEmbeddings ==
    /\ pc = "L96"
    /\ Collab("L99", << Image("plot_latent_embeddings", plots_prefix, << >>,
                              "covars", << >>) >>)

\* latent_response = cpa_api.latent_dose_response(perturbations=None)
LatentResponse ==
    /\ pc = "L99"
    /\ Collab("L100", << >>)

PlotLatentResponse ==
    /\ pc = "L100"
    /\ Collab("L108", << Image("plot_contvar_response", plots_prefix, << >>,
                               "latent", << >>) >>)

\* if not (specs.perturbations_pair is None):
TestPair ==
    /\ pc = "L108"
    /\ IF specs.perturbations_pair.tag = "unset"
       THEN Raise("AttributeError")
       ELSE Stmt(IF specs.perturbations_pair.tag = "None" THEN "L144" ELSE "L109",
                 << >>, idx, uncert_list)

LatentDose2D ==
    /\ pc = "L109"
    /\ Collab("L112", << >>)

PlotLatent2D ==
    /\ pc = "L112"
    /\ Collab("L116", << Image("plot_contvar_response2D", plots_prefix, << >>,
                               "latent2D", << >>) >>)

GetResponse2D ==
    /\ pc = "L116"
    /\ Collab("L119", << >>)

PlotReconstructed2D ==
    /\ pc = "L119"
    /\ Collab("L126", << Image("plot_contvar_response2D", plots_prefix, << >>,
                               "reconstructed-dose-response2D", << >>) >>)

PlotLogReconstructed2D ==
    /\ pc = "L126"
    /\ Collab("L135", << Image("plot_contvar_response2D", plots_prefix, << >>,
                               "log10-reconstructed-dose-response2D", << >>) >>)

UncertaintyText == <<"_","u","n","c","e","r","t","a","i","n","t","y","_">>
Png == <<".","p","n","g">>

\* pl.plot_uncertainty_comb_dose(..., cov=specs.selected_cov, filename=..., ...)
PlotUncertaintyComb ==
    /\ pc = "L135"
    /\ IF specs.selected_cov.tag = "unset"
       THEN Raise("AttributeError")
       ELSE Collab("L144",
                   << Image("plot_uncertainty_comb_dose", << >>,
                            plots_prefix \o UncertaintyText
                                \o specs.perturbations_pair.val[1] \o <<"_">>
                                \o specs.perturbations_pair.val[2] \o Png,
                            "", << >>) >>)

\* uncert_list = []; for i, drug in enumerate(specs.selected_drugs):
EnterDrugLoop ==
    /\ pc = "L144"
    /\ IF specs.selected_drugs.tag = "unset"
       THEN Raise("AttributeError")
       ELSE Stmt("L146", << >>, 1, << >>)

\* uncert_list.append(pl.plot_uncertainty_dose(..., pert=drug, filename=...))
PlotUncertaintyDose ==
    /\ pc = "L146"
    /\ IF idx > Len(specs.selected_drugs.val)
       THEN Stmt("L159", << >>, 1, uncert_list)
       ELSE LET drug == specs.selected_drugs.val[idx] IN
            IF specs.selected_cov.tag = "unset"
            THEN Raise("AttributeError")
            ELSE CollabLoop("L146",
                            << Image("plot_uncertainty_dose", << >>,
                                     plots_prefix \o UncertaintyText \o drug \o Png,
                                     "", << >>) >>,
                            idx + 1, Append(uncert_list, drug))

\* df_uncert = pd.concat(uncert_list) ... df_uncert["log10-dose"] = ...
BuildReference ==
    /\ pc = "L159"
    /\ IF uncert_list = << >>
       THEN Raise("ValueError")
       ELSE Collab("L173", << >>)

UncertaintyMetrics ==
    << <<"u","n","c","e","r","t","a","i","n","t","y","_","c","o","s","i","n","e">>,
       <<"u","n","c","e","r","t","a","i","n","t","y","_","e","u","c","l">> >>

\* for unc in [...]: pl.plot_dose_response(..., fname=f"{plots_prefix}_{unc}", ...)
PlotDoseResponse ==
    /\ pc = "L173"
    /\ IF idx > Len(UncertaintyMetrics)
       THEN Stmt("L195", << >>, 1, uncert_list)
       ELSE CollabLoop("L173",
                       << Image("plot_dose_response", << >>,
                                plots_prefix \o <<"_">> \o UncertaintyMetrics[idx],
                                "", << >>) >>,
                       idx + 1, uncert_list)

\* if specs.plot_ref:
TestPlotRef ==
    /\ pc = "L195"
    /\ IF specs.plot_ref
       THEN Stmt("L196", << >>, idx, uncert_list)
       ELSE Return

\* get_response_reference(datasets); get_response(datasets);
\* for gene in specs.target_genes:
GetReference ==
    /\ pc = "L196"
    /\ \E ok \in BOOLEAN :
          IF ~ok THEN Raise("CollaboratorError")
          ELSE IF specs.target_genes.tag = "unset" THEN Raise("AttributeError")
          ELSE Stmt("L199", << >>, 1, uncert_list)

\* the loop header, and the first plot of the body (logdose=False)
PlotReconstructed ==
    /\ pc = "L199"
    /\ IF idx > Len(specs.target_genes.val)
       THEN Return
       ELSE Collab("L212", << Image("plot_contvar_response", plots_prefix, << >>,
                                    "reconstructed-dose-response",
                                    specs.target_genes.val[idx]) >>)

\* the second plot of the body (logdose=True)
PlotLogReconstructed ==
    /\ pc = "L212"
    /\ CollabLoop("L199",
                  << Image("plot_contvar_response", plots_prefix, << >>,
                           "log10-reconstructed-dose-response",
                           specs.target_genes.val[idx]) >>,
                  idx + 1, uncert_list)

GetBestPlots ==
    \/ Resolve \/ DeriveFolder \/ MakeFolder \/ DerivePrefix
    \/ LoadCheckpoint \/ MakeHistory \/ PlotLosses \/ PlotMetrics
    \/ PrepareModel \/ MakeVisuals \/ GetEmbeddings
    \/ PlotPertsEmbeddings \/ PlotCovarsEmbeddings
    \/ LatentResponse \/ PlotLatentResponse \/ TestPair
    \/ LatentDose2D \/ PlotLatent2D \/ GetResponse2D
    \/ PlotReconstructed2D \/ PlotLogReconstructed2D \/ PlotUncertaintyComb
    \/ EnterDrugLoop \/ PlotUncertaintyDose \/ BuildReference
    \/ PlotDoseResponse \/ TestPlotRef \/ GetReference
    \/ PlotReconstructed \/ PlotLogReconstructed

(***************************************************************************)
(* The batch driver (if __name__ == "__main__") and a direct caller.       *)
(***************************************************************************)
\* model_name = join(mypath, fold, f)
ModelName(i, j) == Join3(mypath, fs.folders[i].name, fs.folders[i].entries[j])

\* Mutant: either substring is enough.
SelectedEither(name) == Contains(argv[2], name) \/ Contains(sweep, name)

\* (sys.argv[1] in model_name) and ("sweep" in model_name)
Selected(name) == Contains(argv[2], name) /\ Contains(sweep, name)

\* _, folders, _ = next(walk(mypath)): walk of a missing directory yields
\* nothing, and next() raises StopIteration.
MainWalk ==
    /\ caller = "main"
    /\ mainpc = "start"
    /\ IF fs.exists
       THEN mainpc' = "loop" /\ exc' = exc
       ELSE mainpc' = "raised" /\ exc' = "StopIteration"
    /\ fi' = 1
    /\ fj' = 1
    /\ UNCHANGED <<argv, fs, caller, pc, frameVars, plots, dirs, disk, done>>

\* for fold in folders: the inner listing is exhausted
MainNextFolder ==
    /\ caller = "main"
    /\ mainpc = "loop"
    /\ pc = "idle"
    /\ fi <= Len(fs.folders)
    /\ fj > Len(fs.folders[fi].entries)
    /\ fi' = fi + 1
    /\ fj' = 1
    /\ UNCHANGED <<argv, fs, caller, mainpc, exc, pc, frameVars, plots, dirs, disk, done>>

\* Mutant: the filter tests "sweep" first, and reads sys.argv[1] only when
\* "sweep" is in the path.
MainEntrySweepFirst ==
    /\ caller = "main"
    /\ mainpc = "loop"
    /\ pc = "idle"
    /\ fi <= Len(fs.folders)
    /\ fj <= Len(fs.folders[fi].entries)
    /\ IF Contains(sweep, ModelName(fi, fj)) /\ Len(argv) < 2
       THEN /\ mainpc' = "raised"
            /\ exc' = "IndexError"
            /\ UNCHANGED <<fi, fj, pc, frameVars, plots>>
       ELSE /\ fj' = fj + 1
            /\ UNCHANGED <<mainpc, exc, fi>>
            /\ IF Contains(sweep, ModelName(fi, fj)) /\ Contains(argv[2], ModelName(fi, fj))
               THEN Enter(ModelName(fi, fj), DefaultPlotsPath)
               ELSE UNCHANGED <<pc, frameVars, plots>>
    /\ UNCHANGED <<argv, fs, caller, dirs, disk, done>>

\* for f in listdir(...): the next entry; the filter; the call
MainEntry ==
    /\ caller = "main"
    /\ mainpc = "loop"
    /\ pc = "idle"
    /\ fi <= Len(fs.folders)
    /\ fj <= Len(fs.folders[fi].entries)
    /\ IF Len(argv) < 2
       THEN /\ mainpc' = "raised"
            /\ exc' = "IndexError"
            /\ UNCHANGED <<fi, fj, pc, frameVars, plots>>
       ELSE /\ fj' = fj + 1
            /\ UNCHANGED <<mainpc, exc, fi>>
            /\ IF Selected(ModelName(fi, fj))
               THEN Enter(ModelName(fi, fj), DefaultPlotsPath)
               ELSE UNCHANGED <<pc, frameVars, plots>>
    /\ UNCHANGED <<argv, fs, caller, dirs, disk, done>>

\* both loops are exhausted: the program ends
MainFinish ==
    /\ caller = "main"
    /\ mainpc = "loop"
    /\ pc = "idle"
    /\ fi > Len(fs.folders)
    /\ mainpc' = "done"
    /\ UNCHANGED <<argv, fs, caller, fi, fj, exc, pc, frameVars, plots, dirs, disk, done>>

\* Importing code calls get_best_plots(name, p) ...
FirstCall ==
    /\ caller = "call"
    /\ mainpc = "start"
    /\ pc = "idle"
    /\ \E name \in CallNames, p \in CallPaths : Enter(name, p)
    /\ mainpc' = "first"
    /\ UNCHANGED <<argv, fs, caller, fi, fj, exc, dirs, disk, done>>

\* ... and, when that call has ended, calls it again with the same arguments.
SecondCall ==
    /\ caller = "call"
    /\ mainpc = "first"
    /\ pc = "idle"
    /\ Enter(done[1].model_name, done[1].path)
    /\ mainpc' = "second"
    /\ UNCHANGED <<argv, fs, caller, fi, fj, exc, dirs, disk, done>>

Next ==
    \/ MainWalk \/ MainNextFolder \/ MainEntry \/ MainFinish
    \/ FirstCall \/ SecondCall
    \/ GetBestPlots

Spec == Init /\ [][Next]_vars

(***************************************************************************)
(* Vocabulary of the properties.                                           *)
(***************************************************************************)
\* The checkpoint paths get_best_plots was invoked on so far, in order.
Invoked ==
    [i \in 1..Len(done) |-> done[i].model_name]
        \o (IF pc = "idle" THEN << >> ELSE << model_name >>)

\* The running invocation has built its DatasetSpecs.
Resolved == pc \notin {"idle", "L62"}

\* The ended invocation d got its checkpoint from torch.load.
Loaded(d) == d.at \notin {"L62", "L64", "L65", "L66", "L70"}

NoCollaboratorFailed(d) == d.outcome # "CollaboratorError"

IsPrefix(a, b) == Len(a) <= Len(b) /\ SubSeq(b, 1, Len(a)) = a

\* What each image of a sequence of plots is: the plotting call and its
\* postfix/kind.
Kinds(ps) == [i \in 1..Len(ps) |-> <<ps[i].fn, ps[i].postfix>>]

AlwaysKinds ==
    << <<"plot_losses", "">>, <<"plot_metrics", "">>,
       <<"plot_latent_embeddings", "perturbations+text">>,
       <<"plot_latent_embeddings", "covars">>,
       <<"plot_contvar_response", "latent">> >>

PairKinds ==
    << <<"plot_contvar_response2D", "latent2D">>,
       <<"plot_contvar_response2D", "reconstructed-dose-response2D">>,
       <<"plot_contvar_response2D", "log10-reconstructed-dose-response2D">>,
       <<"plot_uncertainty_comb_dose", "">> >>

PairDependent(img) == img.fn \in {"plot_contvar_response2D", "plot_uncertainty_comb_dose"}
GeneDependent(img) == img.fn = "plot_contvar_response" /\ img.var # << >>

HasGSM(name) == Contains(GSM, name)
HasPachter(name) == Contains(pachter, name)
HasCross(name) == Contains(cross, name)

\* The entries of the root's subdirectories as joined paths, in enumeration order.
RECURSIVE Enumerated(_)
Enumerated(i) ==
    IF i > Len(fs.folders) THEN << >>
    ELSE [j \in 1..Len(fs.folders[i].entries) |-> ModelName(i, j)] \o Enumerated(i + 1)

RECURSIVE Filter(_, _)
Filter(names, arg) ==
    IF names = << >> THEN << >>
    ELSE (IF Contains(arg, Head(names)) /\ Contains(sweep, Head(names))
          THEN << Head(names) >> ELSE << >>) \o Filter(Tail(names), arg)

Terminal == mainpc \in {"done", "raised"}

(***************************************************************************)
(* C1.  The batch driver's filter.                                         *)
(***************************************************************************)
PathSweepAOther == Join3(mypath, sweepA, run1_other)

\* The root holds the one subdirectory sweepA/ with the entries run1_sweep and
\* run1_other, and the first command-line argument is "run1".
C1_Scenario ==
    /\ caller = "main"
    /\ fs.exists
    /\ Len(fs.folders) = 1
    /\ fs.folders[1].name = sweepA
    /\ Range(fs.folders[1].entries) = {run1_sweep, run1_other}
    /\ Len(argv) = 2
    /\ argv[2] = run1

\* C1 as stated: in the scenario get_best_plots is never invoked on
\* sweepA/run1_other.
C1_Original ==
    C1_Scenario => \A i \in 1..Len(Invoked) : Invoked[i] # PathSweepAOther

\* C1 amended: the driver invokes get_best_plots only on joined paths that
\* contain both the filter argument and "sweep"; in the scenario both entries
\* have such a path (the folder name sweepA holds "sweep"), so neither is
\* filtered out and the invocations follow the enumeration order, run1_other
\* included.
C1_Amended ==
    /\ caller = "main" =>
          \A i \in 1..Len(Invoked) :
              Contains(argv[2], Invoked[i]) /\ Contains(sweep, Invoked[i])
    /\ C1_Scenario =>
          /\ Filter(Enumerated(1), argv[2]) = Enumerated(1)
          /\ IsPrefix(Invoked, Enumerated(1))

\* In the scenario, get_best_plots was invoked on sweepA/run1_other.
C1_Witness ==
    /\ C1_Scenario
    /\ Len(Invoked) >= 1
    /\ Invoked[1] = PathSweepAOther

(***************************************************************************)
(* C2.  Output naming.                                                     *)
(***************************************************************************)
\* C2 as stated: for a checkpoint path root/expA/modelB and an output
\* directory <path>, the folder is <path>/expA/ and the filename prefix is
\* exactly <path>/expA/expA_modelB.
C2_Claim ==
    (pc \notin {"idle", "L62", "L64", "L65", "L66"} /\ Len(Split(model_name, "/")) = 3) =>
        LET parts == Split(model_name, "/") IN
        /\ folder = path \o <<"/">> \o parts[2] \o <<"/">>
        /\ plots_prefix = path \o <<"/">> \o parts[2] \o <<"/">>
                               \o parts[2] \o <<"_">> \o parts[3]

(***************************************************************************)
(* C3.  The record built for a path that contains "GSM".                   *)
(***************************************************************************)
GsmShape(s) ==
    /\ s.perts_palette.tag = "value" /\ Len(s.perts_palette.val) > 0
    /\ s.perturbations_pair.tag = "value" /\ Len(s.perturbations_pair.val) = 2
    /\ s.target_genes.tag = "value" /\ Len(s.target_genes.val) = 1
    /\ s.selected_drugs.tag = "value" /\ Len(s.selected_drugs.val) = 4
    /\ s.plot_ref = TRUE

\* C3 as stated: whatever else the path contains, a path with "GSM" gives a
\* non-empty palette, a pair of length 2, one target gene, four drugs and
\* plot_ref true.
C3_Original ==
    (Resolved /\ HasGSM(model_name)) => GsmShape(specs)

\* C3 amended: that holds for a path with "GSM" that contains neither
\* "pachter" nor "cross"; whatever else the path contains, the four selected
\* drugs are there.
C3_Amended ==
    /\ (Resolved /\ HasGSM(model_name) /\ ~HasPachter(model_name) /\ ~HasCross(model_name))
          => GsmShape(specs)
    /\ (Resolved /\ HasGSM(model_name))
          => specs.selected_drugs.tag = "value" /\ Len(specs.selected_drugs.val) = 4

\* A record was built for a path with "GSM" only.
C3_Witness ==
    /\ Resolved
    /\ HasGSM(model_name) /\ ~HasPachter(model_name) /\ ~HasCross(model_name)
    /\ specs.selected_drugs.tag = "value"

(***************************************************************************)
(* C4.  The outputs that are always produced.                              *)
(***************************************************************************)
\* C4 as stated: for every checkpoint path, when the checkpoint was loaded and
\* no collaborator call failed, the invocation rendered the loss and metric
\* plots, then the two embedding plots, then the 1-D latent plot.
C4_Claim ==
    \A i \in 1..Len(done) :
        (Loaded(done[i]) /\ NoCollaboratorFailed(done[i]))
            => IsPrefix(AlwaysKinds, Kinds(done[i].plots))

(***************************************************************************)
(* C5.  A path that contains none of the three substrings.                 *)
(***************************************************************************)
Unmatched(name) == ~HasGSM(name) /\ ~HasPachter(name) /\ ~HasCross(name)

NoConditionalPlot(ps) ==
    \A i \in 1..Len(ps) : ~PairDependent(ps[i]) /\ ~GeneDependent(ps[i])

\* C5: for a path with none of "GSM", "pachter", "cross", building DatasetSpecs
\* raises nothing and leaves palette, pair, target genes, selected drugs and
\* selected covariate unset, and the invocation attempts no pair-dependent
\* plot and no per-gene reconstructed plot.
C5_Unmatched ==
    /\ (Resolved /\ Unmatched(model_name)) =>
          /\ specs.perts_palette = Unset
          /\ specs.perturbations_pair = Unset
          /\ specs.target_genes = Unset
          /\ specs.selected_drugs = Unset
          /\ specs.selected_cov = Unset
          /\ NoConditionalPlot(plots)
    /\ \A i \in 1..Len(done) :
          Unmatched(done[i].model_name) =>
              /\ done[i].at # "L62"
              /\ NoConditionalPlot(done[i].plots)

\* An invocation on an unmatched path went past the loading of its checkpoint
\* and has ended.
C5_Witness ==
    \E i \in 1..Len(done) :
        /\ Unmatched(done[i].model_name)
        /\ Loaded(done[i])
        /\ NoCollaboratorFailed(done[i])

(***************************************************************************)
(* C6.  DatasetSpecs as an override list applied left to right.            *)
(***************************************************************************)
Overrides ==
    << [key |-> GSM,
        sets |-> [perts_palette |-> Val(GsmPalette),
                  perturbations_pair |-> Val(<<Nutlin, BMS>>),
                  target_genes |-> Val(<<MDM2>>),
                  selected_drugs |-> Val(<<Nutlin, BMS, Dex, SAHA>>),
                  selected_cov |-> Val(<<"A","5","4","9">>)]],
       [key |-> pachter,
        sets |-> [perts_palette |-> None,
                  perturbations_pair |-> Val(<<EGF, RA>>),
                  selected_cov |-> Val(<<"u","n","k","n","o","w","n">>),
                  plot_ref |-> FALSE]],
       [key |-> cross,
        sets |-> [perts_palette |-> None,
                  perturbations_pair |-> None,
                  selected_cov |-> Val(<<"m","o","u","s","e">>),
                  target_genes |-> Val(CrossGenes),
                  plot_ref |-> FALSE]] >>

OptionalFields ==
    {"perts_palette", "perturbations_pair", "target_genes", "selected_drugs", "selected_cov"}

\* The value of field f for a path: that of the last entry of the list whose
\* key is in the path and that sets f; the default when there is none.
LastAssigned(f, name) ==
    LET m == { i \in 1..Len(Overrides) :
                 Contains(Overrides[i].key, name) /\ f \in DOMAIN Overrides[i].sets }
    IN IF m = {}
       THEN (IF f = "plot_ref" THEN TRUE ELSE Unset)
       ELSE Overrides[CHOOSE i \in m : \A j \in m : j <= i].sets[f]

\* C6: every field of the record built for a path has the value the last
\* matching block, in the order GSM, pachter, cross, assigns it, and its
\* default when no matching block assigns it; "pachter" alone gives the pair
\* EGF, RA, no palette and plot_ref false; "cross" alone gives no pair, six
\* target genes and plot_ref false.
C6_OverrideList ==
    Resolved =>
        /\ \A f \in OptionalFields \cup {"plot_ref"} : specs[f] = LastAssigned(f, model_name)
        /\ (HasPachter(model_name) /\ ~HasGSM(model_name) /\ ~HasCross(model_name)) =>
              /\ specs.perturbations_pair = Val(<<EGF, RA>>)
              /\ specs.perts_palette = None
              /\ specs.plot_ref = FALSE
        /\ (HasCross(model_name) /\ ~HasGSM(model_name) /\ ~HasPachter(model_name)) =>
              /\ specs.perturbations_pair = None
              /\ specs.target_genes.tag = "value"
              /\ Len(specs.target_genes.val) = 6
              /\ specs.plot_ref = FALSE

\* A record was built for a path in which all three blocks match.
C6_Witness ==
    /\ Resolved
    /\ HasGSM(model_name) /\ HasPachter(model_name) /\ HasCross(model_name)
    /\ specs.selected_drugs.tag = "value"
    /\ specs.perturbations_pair = None

(***************************************************************************)
(* C7.  The batch is sequential and halts at the first failure.            *)
(***************************************************************************)
\* C7: under __main__, an invocation that raised is the last one (no later
\* entry is processed and the program has ended), and the invocations are the
\* selected entries in enumeration order, each started after all the earlier
\* ones returned.
C7_BatchHalts ==
    caller = "main" =>
        /\ \A i \in 1..Len(done) :
              done[i].outcome # "returned" =>
                  (i = Len(done) /\ pc = "idle" /\ mainpc = "raised")
        /\ Len(Invoked) > 0 => IsPrefix(Invoked, Filter(Enumerated(1), argv[2]))

\* An invocation raised while a selected entry was still to come.
C7_Witness ==
    /\ caller = "main"
    /\ mainpc = "raised"
    /\ Len(done) >= 1
    /\ Len(done) < Len(Filter(Enumerated(1), argv[2]))

(***************************************************************************)
(* C8.  The program run without its argument.                              *)
(***************************************************************************)
\* C8 as stated: run without the filter argument, the program ends with an
\* index error whatever the (existing) root directory holds, and processes no
\* checkpoint.
C8_Original ==
    (caller = "main" /\ fs.exists /\ Len(argv) < 2 /\ Terminal) =>
        (exc = "IndexError" /\ done = << >>)

\* C8 amended: run without the filter argument, the program processes no
\* checkpoint; it ends with an index error exactly when some subdirectory of
\* the root has an entry (sys.argv[1] is read at the first entry enumerated);
\* with a root that has no subdirectory or only empty ones it ends without an
\* error, and with no root directory it ends with StopIteration.
C8_Amended ==
    (caller = "main" /\ Len(argv) < 2) =>
        /\ Invoked = << >>
        /\ Terminal =>
              /\ exc = "IndexError" <=> Enumerated(1) # << >>
              /\ exc = "StopIteration" <=> ~fs.exists
              /\ mainpc = "done" <=> (fs.exists /\ Enumerated(1) = << >>)

\* The program, run without the argument, ended with an index error.
C8_Witness ==
    /\ caller = "main"
    /\ Len(argv) < 2
    /\ Terminal
    /\ exc = "IndexError"

(***************************************************************************)
(* C9.  Running the pipeline twice.                                        *)
(***************************************************************************)
\* C9: get_best_plots run twice on the same checkpoint path and output
\* directory: the second run does not raise because the folder exists; the
\* images of one run are the first images of the other (no run writes a
\* differently named file); and when no collaborator call failed in either
\* run, the two runs end the same way with the same set of image names.
C9_Rerun ==
    (caller = "call" /\ Len(done) = 2) =>
        /\ done[2].outcome # "FileExistsError"
        /\ \/ IsPrefix(done[1].plots, done[2].plots)
           \/ IsPrefix(done[2].plots, done[1].plots)
        /\ (NoCollaboratorFailed(done[1]) /\ NoCollaboratorFailed(done[2])) =>
              /\ Range(done[2].plots) = Range(done[1].plots)
              /\ done[2].outcome = done[1].outcome

\* Both runs returned, and wrote images.
C9_Witness ==
    /\ caller = "call"
    /\ Len(done) = 2
    /\ done[1].outcome = "returned"
    /\ done[2].outcome = "returned"
    /\ done[2].plots # << >>
    /\ PurePath(done[2].folder) \in dirs

(***************************************************************************)
(* C10.  Which invocations run to completion.                              *)
(***************************************************************************)
StoppedAtDrugLoop(d) ==
    /\ d.outcome = "AttributeError"
    /\ d.at = "L144"
    /\ Kinds(d.plots) =
          AlwaysKinds \o (IF HasPachter(d.model_name) /\ ~HasCross(d.model_name)
                          THEN PairKinds ELSE << >>)
    /\ Range(d.plots) \subseteq disk

\* C10: when the checkpoint was loaded and no collaborator call failed, the
\* invocation returned if and only if the path contains "GSM"; for a path with
\* "pachter" or "cross" and without "GSM" it ended with the AttributeError on
\* selected_drugs at the head of the per-drug loop, having rendered the
\* history, embedding and 1-D latent plots (and the four pair-dependent plots
\* when the path has "pachter" and not "cross") and nothing else, and these
\* images are on disk.
C10_Completion ==
    \A i \in 1..Len(done) :
        (Loaded(done[i]) /\ NoCollaboratorFailed(done[i])) =>
            /\ done[i].outcome = "returned" <=> HasGSM(done[i].model_name)
            /\ ((HasPachter(done[i].model_name) \/ HasCross(done[i].model_name))
                   /\ ~HasGSM(done[i].model_name))
                  => StoppedAtDrugLoop(done[i])

\* An invocation on a path with "pachter" only stopped at the per-drug loop
\* after the four pair-dependent plots.
C10_Witness ==
    \E i \in 1..Len(done) :
        /\ HasPachter(done[i].model_name)
        /\ ~HasCross(done[i].model_name)
        /\ ~HasGSM(done[i].model_name)
        /\ done[i].at = "L144"
        /\ Kinds(done[i].plots) = AlwaysKinds \o PairKinds

====
